---- MODULE Spec2Model ----
(***************************************************************************)
(* TpsItemOptimizer: the admission gate (Actor::$tick hook), the feedback  *)
(* controller (Level::$tick hook), the lifecycle hooks (despawn / remove)  *)
(* and the mod's enable() / disable(), as one state machine.               *)
(* Source: src/src/Optimizer.cpp, src/src/Optimizer.h.                     *)
(***************************************************************************)
EXTENDS Integers, FiniteSets, TLC

(***************************************************************************)
(* Bounds of the model.                                                    *)
(***************************************************************************)
\* item entities (ActorUniqueID values) the host knows: 1..MaxId
MaxId == 2
\* the host's server tick runs from 1 to MaxTick
MaxTick == 3
\* the host lets at most this many item ticks through the gate per frame
MaxFrameAllows == 9
\* each of the other size_t statistics counters is followed up to this value
MaxStat == 1
\* totalExpiredCleaned is followed up to this value (at least MaxId, so
\* that one sweep can erase every entry)
MaxExpired == 2
\* debug coroutines alive at the same time
MaxCoros == 1

Ids == 1..MaxId

(***************************************************************************)
(* Program constants.                                                      *)
(***************************************************************************)
\* the clamps of the controller (LevelTickHook)
QuotaFloor == 8
QuotaCeil == 200
CooldownFloor == 1
CooldownCeil == 10
\* the defaults loadConfig() falls back to
DefaultCleanupIntervalTicks == 100
DefaultMaxExpiredAge == 600
DefaultInitialMapReserve == 500
DefaultMaxPerTickStep == 1
DefaultCooldownTicksStep == 1
DefaultTargetTickMs == 50
\* the static initialisers of the dynamic parameters
InitMaxPerTick == 20
InitCooldownTicks == 2
\* stands for 2^64, the modulus of std::uint64_t arithmetic: any number
\* larger than every tick and every configuration value of the model
\* compares as 2^64 does
UWrap == 2^30

Max(a, b) == IF a >= b THEN a ELSE b
Min(a, b) == IF a <= b THEN a ELSE b

\* a - b on std::uint64_t
USub(a, b) == IF a >= b THEN a - b ELSE UWrap - (b - a)

(***************************************************************************)
(* Configuration: the values a config.json may hold, and loadConfig().     *)
(***************************************************************************)
\* <<maxPerTickStep, cooldownTicksStep>> as written in config.json
RawStepPairs == {<<0, 0>>, <<21, 6>>}
\* <<cleanupIntervalTicks, maxExpiredAge>> as written in config.json
RawSweepPairs == {<<0, 0>>, <<1, 1>>}

RawConfigs ==
    { [ enabled |-> en,
        debug |-> db,
        targetTickMs |-> 0,
        maxPerTickStep |-> st[1],
        cooldownTicksStep |-> st[2],
        cleanupIntervalTicks |-> sw[1],
        maxExpiredAge |-> sw[2],
        initialMapReserve |-> 0 ] :
        en \in BOOLEAN, db \in BOOLEAN,
        st \in RawStepPairs, sw \in RawSweepPairs }

loadConfig(raw) ==
    [ raw EXCEPT
        !.cleanupIntervalTicks =
            IF @ < 1 THEN DefaultCleanupIntervalTicks ELSE @,
        !.maxExpiredAge = IF @ < 1 THEN DefaultMaxExpiredAge ELSE @,
        !.initialMapReserve = IF @ = 0 THEN DefaultInitialMapReserve ELSE @,
        !.maxPerTickStep = IF @ < 1 THEN DefaultMaxPerTickStep ELSE @,
        !.cooldownTicksStep =
            IF @ < 1 THEN DefaultCooldownTicksStep ELSE @,
        !.targetTickMs = IF @ < 1 THEN DefaultTargetTickMs ELSE @ ]

VARIABLES
    config,               \* static Config config (after load())
    modState,             \* "loaded", "enabled" or "disabled"
    debugTaskRunning,     \* static bool debugTaskRunning
    debugCoros,           \* debug coroutines launched and not finished
    lastItemTick,         \* unordered_map<ActorUniqueID, uint64_t>
    processedThisTick,
    lastTickId,
    cleanupCounter,
    dynMaxPerTick,
    dynCooldownTicks,
    totalProcessed,
    totalCooldownSkipped,
    totalThrottleSkipped,
    totalDespawnCleaned,
    totalExpiredCleaned,
    tick,                 \* the host's current server tick
    crashed,              \* the process died of a write through a dangling iterator
    call,                 \* history: the hook invocation that made this state
    lastAllow,            \* history: per id, the tick of its last Allow
    killed,               \* history: ids destroyed since their last Allow
    frame                 \* history: Allow decisions of the current frame

stats == <<totalProcessed, totalCooldownSkipped, totalThrottleSkipped,
           totalDespawnCleaned, totalExpiredCleaned>>
dyn == <<dynMaxPerTick, dynCooldownTicks>>
frameState == <<processedThisTick, lastTickId, cleanupCounter>>
debugState == <<debugTaskRunning, debugCoros>>
hist == <<call, lastAllow, killed, frame>>
vars == <<config, modState, debugState, lastItemTick, frameState, dyn,
          stats, tick, crashed, hist>>

\* no tick: the entity has not been allowed
NoTick == 0 - 1

(***************************************************************************)
(* The map lastItemTick as a function on the set of its keys.              *)
(***************************************************************************)
Restrict(m, S) == [k \in S |-> m[k]]
\* mutant of Erase: the hook forgets to erase
EraseNothing(m, k) == m

Erase(m, k) == Restrict(m, DOMAIN m \ {k})
Put(m, k, v) == [x \in DOMAIN m \cup {k} |-> IF x = k THEN v ELSE m[x]]
EmptyMap == Restrict(<<>>, {})

\* mutant of Clear: disable() leaves the map as it is
ClearNothing(m) == m

\* lastItemTick.clear()
Clear(m) == EmptyMap

\* resetStats(): all five counters to 0
resetStats ==
    /\ totalProcessed' = 0
    /\ totalCooldownSkipped' = 0
    /\ totalThrottleSkipped' = 0
    /\ totalDespawnCleaned' = 0
    /\ totalExpiredCleaned' = 0

(***************************************************************************)
(* The tests of the gate, each as the code writes it.                      *)
(***************************************************************************)
\* mutant of Bypass: the test of config.enabled is missing
BypassNonItemsOnly(isItem) == ~isItem

\* !config.enabled || !this->isType(ActorType::Item)
Bypass(isItem) == ~config.enabled \/ ~isItem

\* currentTick != lastTickId
NewFrame(cur) == cur # lastTickId

\* ++cleanupCounter >= config.cleanupIntervalTicks
SweepDue(counter) == counter + 1 >= config.cleanupIntervalTicks

\* mutant of Expired: >= for >
ExpiredAtBoundary(cur, ts) == USub(cur, ts) >= config.maxExpiredAge

\* currentTick - it->second > static_cast<uint64_t>(config.maxExpiredAge)
Expired(cur, ts) == USub(cur, ts) > config.maxExpiredAge

\* mutant of Sweep: the loop steps over expired entries without erasing
SweepKeepsAll(m, cur) == m

\* the erase loop over the whole map
Sweep(m, cur) == Restrict(m, {k \in DOMAIN m : ~Expired(cur, m[k])})

\* mutant of Throttled: > for >=
ThrottledOffByOne(processed) == processed > dynMaxPerTick

\* processedThisTick >= dynMaxPerTick
Throttled(processed) == processed >= dynMaxPerTick

\* mutant of Emplace: the value is assigned also when the key exists
EmplaceOverwrites(m, k) == Put(m, k, 0)

\* lastItemTick.emplace(id, 0): inserts 0 only when the key is absent
Emplace(m, k) == IF k \in DOMAIN m THEN m ELSE Put(m, k, 0)

\* mutant of StoreAtThrottle: the lookup runs before the quota test
StoreAtThrottleEmplaced(m, k) == Emplace(m, k)

\* the map as the DenyThrottle return leaves it: emplace has not run
StoreAtThrottle(m, k) == m

\* mutant of InCooldown: the test of inserted is missing
InCooldownIgnoringInserted(inserted, cur, ts) ==
    USub(cur, ts) < dynCooldownTicks

\* !inserted && currentTick - it->second < static_cast<uint64_t>(dynCooldownTicks)
InCooldown(inserted, cur, ts) ==
    ~inserted /\ USub(cur, ts) < dynCooldownTicks

\* mutant of EraseCount: the hook counts every call
EraseCountAlwaysOne(m, k) == 1

\* the return value of lastItemTick.erase(id): the number of entries erased
EraseCount(m, k) == IF k \in DOMAIN m THEN 1 ELSE 0

\* lastItemTick.erase(id) of the despawn / remove hooks, for a set of ids
EraseAll(m, D) == Restrict(m, DOMAIN m \ D)

(***************************************************************************)
(* History records.                                                        *)
(***************************************************************************)
\* kind: "none", "gate" (ItemActorTickHook), "destroy" (despawn / remove),
\* "enable" or "disable";
\* hadEntry, prevAllow, wasKilled: before the call, whether the called id had
\* an entry, the tick of its last Allow, whether it was destroyed since;
\* swept, removed: whether the call ran the sweep, and how many entries it
\* erased (for disable(): how many entries it cleared);
\* nested: the ids destroyed during origin(region);
\* reset: enable() after disable() found the dynamic parameters away from
\* the values it sets
NoCall ==
    [ kind |-> "none", id |-> 0, result |-> "none", hadEntry |-> FALSE,
      prevAllow |-> NoTick, wasKilled |-> FALSE, swept |-> FALSE,
      removed |-> 0, nested |-> {}, reset |-> FALSE ]

\* allows: the Allow decisions since the frame began (or enable() / disable()
\* ran); saturated: a gate call of the frame has left
\* processedThisTick >= dynMaxPerTick
NoFrame == [allows |-> 0, saturated |-> FALSE]

(***************************************************************************)
(* Init: the statics as initialised, config as load() leaves it.           *)
(***************************************************************************)
Init ==
    /\ config \in {loadConfig(raw) : raw \in RawConfigs}
    /\ modState = "loaded"
    /\ debugTaskRunning = FALSE
    /\ debugCoros = 0
    /\ lastItemTick = EmptyMap
    /\ processedThisTick = 0
    /\ lastTickId = 0
    /\ cleanupCounter = 0
    /\ dynMaxPerTick = InitMaxPerTick
    /\ dynCooldownTicks = InitCooldownTicks
    /\ totalProcessed = 0
    /\ totalCooldownSkipped = 0
    /\ totalThrottleSkipped = 0
    /\ totalDespawnCleaned = 0
    /\ totalExpiredCleaned = 0
    /\ tick = 1
    /\ crashed = FALSE
    /\ call = NoCall
    /\ lastAllow = [i \in Ids |-> NoTick]
    /\ killed = {}
    /\ frame = NoFrame

(***************************************************************************)
(* Optimizer::enable() with startDebugTask()                               *)
(***************************************************************************)
\* mutant of EnabledQuota: enable() keeps the quota the controller reached
EnabledQuotaKept == dynMaxPerTick

EnabledQuota == config.maxPerTickStep * 10
EnabledCooldown == config.cooldownTicksStep * 2

Enable ==
    /\ modState \in {"loaded", "disabled"}
    /\ ~crashed
    /\ dynMaxPerTick' = EnabledQuota
    /\ dynCooldownTicks' = EnabledCooldown
    /\ IF config.debug /\ ~debugTaskRunning
       THEN /\ debugCoros < MaxCoros
            /\ debugTaskRunning' = TRUE
            /\ debugCoros' = debugCoros + 1
       ELSE UNCHANGED debugState
    /\ modState' = "enabled"
    /\ call' = [NoCall EXCEPT
                    !.kind = "enable",
                    !.reset = /\ modState = "disabled"
                              /\ dynMaxPerTick # EnabledQuota
                              /\ dynCooldownTicks # EnabledCooldown]
    /\ frame' = NoFrame
    /\ UNCHANGED <<config, lastItemTick, frameState, stats, tick, crashed,
                   lastAllow, killed>>

(***************************************************************************)
(* Optimizer::disable() with stopDebugTask() and resetStats()              *)
(***************************************************************************)
Disable ==
    /\ modState = "enabled"
    /\ ~crashed
    /\ debugTaskRunning' = FALSE
    /\ lastItemTick' = Clear(lastItemTick)
    /\ processedThisTick' = 0
    /\ lastTickId' = 0
    /\ cleanupCounter' = 0
    /\ resetStats
    /\ modState' = "disabled"
    /\ call' = [NoCall EXCEPT
                    !.kind = "disable",
                    !.removed = Cardinality(DOMAIN lastItemTick)]
    /\ frame' = NoFrame
    /\ lastAllow' = [i \in Ids |-> NoTick]
    /\ killed' = {}
    /\ UNCHANGED <<config, debugCoros, dyn, tick, crashed>>

(***************************************************************************)
(* One round of the debug coroutine: the wait is over, the report runs on  *)
(* the server thread and resets the counters, and the loop tests the flag. *)
(***************************************************************************)
DebugTask ==
    /\ debugCoros > 0
    /\ ~crashed
    /\ IF config.debug THEN resetStats ELSE UNCHANGED stats
    /\ IF debugTaskRunning
       THEN UNCHANGED debugState
       ELSE /\ debugCoros' = debugCoros - 1
            /\ debugTaskRunning' = FALSE
    /\ call' = NoCall
    /\ UNCHANGED <<config, modState, lastItemTick, frameState, dyn, tick,
                   crashed, lastAllow, killed, frame>>

(***************************************************************************)
(* ItemActorTickHook: the hook on Actor::$tick.  isItem is                 *)
(* this->isType(ActorType::Item).  On the Allow path origin(region) runs   *)
(* the item's own tick between the lookup and the timestamp write; the     *)
(* host may despawn or remove items there (an item that expires or merges  *)
(* during its tick), which runs the despawn / remove hooks nested: D is    *)
(* the set of ids they are called for.  unordered_map::erase invalidates   *)
(* only the iterator of the erased element, so the write it->second = ...  *)
(* is defined unless e itself was erased; then it is a write through a     *)
(* dangling iterator, whose outcomes are a lost write or a dead process.   *)
(* The hooks are installed when the library is loaded and stay installed   *)
(* after disable(); the server ticks only once the mod has been enabled.   *)
(* statCap is the value up to which the model follows the size_t counters  *)
(* totalProcessed, totalCooldownSkipped and totalThrottleSkipped.          *)
(***************************************************************************)
GateCall(e, isItem, statCap) ==
    /\ modState # "loaded"
    /\ ~crashed
    /\ IF Bypass(isItem)
       THEN /\ call' = [NoCall EXCEPT !.kind = "gate",
                                      !.id = IF isItem THEN e ELSE 0,
                                      !.result = "PassThrough"]
            /\ UNCHANGED <<config, modState, debugState, lastItemTick,
                           frameState, dyn, stats, tick, crashed,
                           lastAllow, killed, frame>>
       ELSE
         LET cur == tick
             new == NewFrame(cur)
             due == new /\ SweepDue(cleanupCounter)
             proc == IF new THEN 0 ELSE processedThisTick
             counter == IF ~new THEN cleanupCounter
                        ELSE IF due THEN 0 ELSE cleanupCounter + 1
             swept == IF due THEN Sweep(lastItemTick, cur) ELSE lastItemTick
             removed == Cardinality(DOMAIN lastItemTick \ DOMAIN swept)
             inserted == e \notin DOMAIN swept
             found == Emplace(swept, e)
             rec == [NoCall EXCEPT
                        !.kind = "gate", !.id = e,
                        !.hadEntry = e \in DOMAIN lastItemTick,
                        !.prevAllow = lastAllow[e],
                        !.wasKilled = e \in killed,
                        !.swept = due,
                        !.removed = removed]
         IN
         /\ frame.allows < MaxFrameAllows
         /\ totalExpiredCleaned + removed <= MaxExpired
         /\ lastTickId' = cur
         /\ cleanupCounter' = counter
         /\ totalExpiredCleaned' = totalExpiredCleaned + removed
         /\ IF Throttled(proc)
            THEN /\ totalThrottleSkipped < statCap
                 /\ totalThrottleSkipped' = totalThrottleSkipped + 1
                 /\ processedThisTick' = proc
                 /\ lastItemTick' = StoreAtThrottle(swept, e)
                 /\ call' = [rec EXCEPT !.result = "DenyThrottle"]
                 /\ frame' = [frame EXCEPT
                                 !.saturated = @ \/ proc >= dynMaxPerTick]
                 /\ UNCHANGED <<totalProcessed, totalCooldownSkipped,
                                totalDespawnCleaned, crashed, lastAllow,
                                killed>>
            ELSE IF InCooldown(inserted, cur, found[e])
            THEN /\ totalCooldownSkipped < statCap
                 /\ totalCooldownSkipped' = totalCooldownSkipped + 1
                 /\ processedThisTick' = proc
                 /\ lastItemTick' = found
                 /\ call' = [rec EXCEPT !.result = "DenyCooldown"]
                 /\ frame' = [frame EXCEPT
                                 !.saturated = @ \/ proc >= dynMaxPerTick]
                 /\ UNCHANGED <<totalProcessed, totalThrottleSkipped,
                                totalDespawnCleaned, crashed, lastAllow,
                                killed>>
            ELSE \E D \in SUBSET Ids :
                 \E ub \in IF e \in D THEN {"lost", "crash"} ELSE {"none"} :
                 LET hit == D \cap DOMAIN found
                     erased == EraseAll(found, D)
                 IN
                 /\ totalProcessed < statCap
                 /\ totalDespawnCleaned + Cardinality(hit) <= MaxStat
                 /\ processedThisTick' = proc + 1
                 /\ totalDespawnCleaned' =
                        totalDespawnCleaned + Cardinality(hit)
                 /\ lastItemTick' =
                        IF e \in D THEN erased ELSE Put(erased, e, cur)
                 /\ crashed' = (ub = "crash")
                 /\ totalProcessed' =
                        IF ub = "crash" THEN totalProcessed
                        ELSE totalProcessed + 1
                 /\ call' = [rec EXCEPT !.result = "Allow", !.nested = D]
                 /\ lastAllow' = [lastAllow EXCEPT ![e] = cur]
                 /\ killed' = (killed \ {e}) \cup D
                 /\ frame' = [allows |-> frame.allows + 1,
                              saturated |-> frame.saturated
                                            \/ proc + 1 >= dynMaxPerTick]
                 /\ UNCHANGED <<totalCooldownSkipped, totalThrottleSkipped>>
         /\ UNCHANGED <<config, modState, debugState, dyn, tick>>

ItemActorTickHook(e, isItem) == GateCall(e, isItem, MaxStat)

(***************************************************************************)
(* LevelTickHook: the controller, after origin() has run the frame.        *)
(* elapsed is the measured duration in milliseconds.                       *)
(***************************************************************************)
OverBudget(elapsed) == elapsed > config.targetTickMs

StricterQuota == Max(QuotaFloor, dynMaxPerTick - config.maxPerTickStep)
StricterCooldown ==
    Min(CooldownCeil, dynCooldownTicks + config.cooldownTicksStep)
LooserQuota == Min(QuotaCeil, dynMaxPerTick + config.maxPerTickStep)
LooserCooldown ==
    Max(CooldownFloor, dynCooldownTicks - config.cooldownTicksStep)

LevelTickHook(elapsed) ==
    /\ modState # "loaded"
    /\ ~crashed
    /\ IF ~config.enabled
       THEN UNCHANGED dyn
       ELSE IF OverBudget(elapsed)
       THEN /\ dynMaxPerTick' = StricterQuota
            /\ dynCooldownTicks' = StricterCooldown
       ELSE /\ dynMaxPerTick' = LooserQuota
            /\ dynCooldownTicks' = LooserCooldown
    /\ UNCHANGED <<config, modState, debugState, lastItemTick, frameState,
                   stats, crashed>>

\* the durations the host measures: at the target and above it
Elapsed == {config.targetTickMs, config.targetTickMs + 1}

\* a frame of the host ends (LevelTickHook) and the server tick moves on
Frame ==
    /\ tick < MaxTick
    /\ \E elapsed \in Elapsed : LevelTickHook(elapsed)
    /\ tick' = tick + 1
    /\ call' = NoCall
    /\ frame' = NoFrame
    /\ UNCHANGED <<lastAllow, killed>>

(***************************************************************************)
(* ActorDespawnHook and ActorRemoveHook                                     *)
(***************************************************************************)
EntityDestroyed(e) ==
    /\ modState # "loaded"
    /\ ~crashed
    /\ IF config.enabled /\ EraseCount(lastItemTick, e) > 0
       THEN /\ totalDespawnCleaned < MaxStat
            /\ lastItemTick' = Erase(lastItemTick, e)
            /\ totalDespawnCleaned' = totalDespawnCleaned + 1
       ELSE UNCHANGED <<lastItemTick, totalDespawnCleaned>>
    /\ call' = [NoCall EXCEPT !.kind = "destroy", !.id = e,
                              !.hadEntry = e \in DOMAIN lastItemTick,
                              !.prevAllow = lastAllow[e],
                              !.wasKilled = e \in killed]
    /\ killed' = killed \cup {e}
    /\ UNCHANGED <<config, modState, debugState, frameState, dyn,
                   totalProcessed, totalCooldownSkipped,
                   totalThrottleSkipped, totalExpiredCleaned, tick, crashed,
                   lastAllow, frame>>

ActorDespawnHook(e) == EntityDestroyed(e)

ActorRemoveHook(e) == EntityDestroyed(e)

Next ==
    \/ Enable
    \/ Disable
    \/ DebugTask
    \/ \E e \in Ids, isItem \in BOOLEAN : ItemActorTickHook(e, isItem)
    \/ Frame
    \/ \E e \in Ids : ActorDespawnHook(e)
    \/ \E e \in Ids : ActorRemoveHook(e)

Spec == Init /\ [][Next]_vars

(***************************************************************************)
(* The controller alone: enable(), then frames that all end over budget    *)
(* (SpecOver) or all end within budget (SpecUnder).  The host calls        *)
(* Level::$tick once per frame for as long as the server runs.             *)
(***************************************************************************)
MaxQuotaStep == 22
MaxCooldownStep == 7

InitCtl ==
    /\ config \in
        { loadConfig([ enabled |-> TRUE, debug |-> FALSE, targetTickMs |-> 0,
                       maxPerTickStep |-> q, cooldownTicksStep |-> c,
                       cleanupIntervalTicks |-> 0, maxExpiredAge |-> 0,
                       initialMapReserve |-> 0 ]) :
            q \in 0..MaxQuotaStep, c \in 0..MaxCooldownStep }
    /\ modState = "loaded"
    /\ debugTaskRunning = FALSE
    /\ debugCoros = 0
    /\ lastItemTick = EmptyMap
    /\ processedThisTick = 0
    /\ lastTickId = 0
    /\ cleanupCounter = 0
    /\ dynMaxPerTick = InitMaxPerTick
    /\ dynCooldownTicks = InitCooldownTicks
    /\ totalProcessed = 0
    /\ totalCooldownSkipped = 0
    /\ totalThrottleSkipped = 0
    /\ totalDespawnCleaned = 0
    /\ totalExpiredCleaned = 0
    /\ tick = 1
    /\ crashed = FALSE
    /\ call = NoCall
    /\ lastAllow = [i \in Ids |-> NoTick]
    /\ killed = {}
    /\ frame = NoFrame

FirstEnable == modState = "loaded" /\ Enable

FrameOver ==
    /\ LevelTickHook(config.targetTickMs + 1)
    /\ UNCHANGED <<tick, hist>>

FrameUnder ==
    /\ \E elapsed \in {0, config.targetTickMs} : LevelTickHook(elapsed)
    /\ UNCHANGED <<tick, hist>>

NextOver == FirstEnable \/ FrameOver

NextUnder == FirstEnable \/ FrameUnder

SpecOver == InitCtl /\ [][NextOver]_vars /\ WF_vars(NextOver)

SpecUnder == InitCtl /\ [][NextUnder]_vars /\ WF_vars(NextUnder)

(***************************************************************************)
(* The sweep as the backstop: the feature and the debug report are on, no  *)
(* entity is ever despawned or removed, disable() is not called, the host  *)
(* ticks at least one item in every frame and the server tick grows by one *)
(* per frame, up to MaxSweepTick.  The debug coroutine reports every five  *)
(* seconds for as long as the mod is enabled.                              *)
(***************************************************************************)
MaxSweepTick == 6

\* <<cleanupIntervalTicks, maxExpiredAge>> as written in config.json
SweepSpecPairs == {<<1, 1>>, <<1, 2>>, <<2, 1>>, <<2, 2>>}

InitSweep ==
    /\ config \in
        { loadConfig([ enabled |-> TRUE, debug |-> TRUE, targetTickMs |-> 0,
                       maxPerTickStep |-> 0, cooldownTicksStep |-> 0,
                       cleanupIntervalTicks |-> sw[1],
                       maxExpiredAge |-> sw[2],
                       initialMapReserve |-> 0 ]) : sw \in SweepSpecPairs }
    /\ modState = "loaded"
    /\ debugTaskRunning = FALSE
    /\ debugCoros = 0
    /\ lastItemTick = EmptyMap
    /\ processedThisTick = 0
    /\ lastTickId = 0
    /\ cleanupCounter = 0
    /\ dynMaxPerTick = InitMaxPerTick
    /\ dynCooldownTicks = InitCooldownTicks
    /\ totalProcessed = 0
    /\ totalCooldownSkipped = 0
    /\ totalThrottleSkipped = 0
    /\ totalDespawnCleaned = 0
    /\ totalExpiredCleaned = 0
    /\ tick = 1
    /\ crashed = FALSE
    /\ call = NoCall
    /\ lastAllow = [i \in Ids |-> NoTick]
    /\ killed = {}
    /\ frame = NoFrame

\* an item's tick during which nothing is despawned or removed
SweepGate ==
    \E e \in Ids : ItemActorTickHook(e, TRUE) /\ call'.nested = {}

\* the frame ends after the gate has been called in it
SweepFrame ==
    /\ lastTickId = tick
    /\ tick < MaxSweepTick
    /\ \E elapsed \in Elapsed : LevelTickHook(elapsed)
    /\ tick' = tick + 1
    /\ call' = NoCall
    /\ frame' = NoFrame
    /\ UNCHANGED <<lastAllow, killed>>

NextSweep == FirstEnable \/ SweepGate \/ SweepFrame \/ DebugTask

SpecSweep ==
    /\ InitSweep
    /\ [][NextSweep]_vars
    /\ WF_vars(FirstEnable)
    /\ WF_vars(SweepGate)
    /\ WF_vars(SweepFrame)
    /\ WF_vars(DebugTask)

(***************************************************************************)
(* Sustained overload: the configuration is the one struct Config          *)
(* declares, with the debug report on; every frame ends over budget; once  *)
(* the controller has settled at (QuotaFloor, CooldownCeil) the world      *)
(* holds MaxStarveId items, none of which is ever despawned or removed,    *)
(* and in every frame the host ticks each of them once, in the same order  *)
(* 1, 2, ..., MaxStarveId.  The debug report runs between frames, so the   *)
(* counters of a frame count its gate calls.                               *)
(*                                                                         *)
(* The server tick is followed up to MaxStarveTick.  From then on the      *)
(* model keeps tick at MaxStarveTick and, at every frame end, moves the    *)
(* origin of time forward by one instead: every stored tick decreases by   *)
(* 1.  The code reads ticks only as differences currentTick - it->second   *)
(* and in the test currentTick != lastTickId, so it behaves the same in    *)
(* both views, and the endless run of the server has finitely many states. *)
(***************************************************************************)
MaxStarveId == 81
MaxStarveTick == 20

StarveIds == 1..MaxStarveId

\* struct Config as declared, with debug = true
DeclaredConfig ==
    [ enabled |-> TRUE,
      debug |-> TRUE,
      targetTickMs |-> 50,
      maxPerTickStep |-> 2,
      cooldownTicksStep |-> 1,
      cleanupIntervalTicks |-> 100,
      maxExpiredAge |-> 600,
      initialMapReserve |-> 500 ]

InitStarve ==
    /\ config = loadConfig(DeclaredConfig)
    /\ modState = "loaded"
    /\ debugTaskRunning = FALSE
    /\ debugCoros = 0
    /\ lastItemTick = EmptyMap
    /\ processedThisTick = 0
    /\ lastTickId = 0
    /\ cleanupCounter = 0
    /\ dynMaxPerTick = InitMaxPerTick
    /\ dynCooldownTicks = InitCooldownTicks
    /\ totalProcessed = 0
    /\ totalCooldownSkipped = 0
    /\ totalThrottleSkipped = 0
    /\ totalDespawnCleaned = 0
    /\ totalExpiredCleaned = 0
    /\ tick = 1
    /\ crashed = FALSE
    /\ call = NoCall
    /\ lastAllow = [i \in StarveIds |-> NoTick]
    /\ killed = {}
    /\ frame = NoFrame

\* the controller has settled and the items are in the world
Settled == dynMaxPerTick = QuotaFloor /\ dynCooldownTicks = CooldownCeil

\* the gate calls made since the last debug report
CallsCounted ==
    totalProcessed + totalCooldownSkipped + totalThrottleSkipped

\* the host ticks the next item of its list
StarveGate ==
    /\ Settled
    /\ CallsCounted < MaxStarveId
    /\ GateCall(CallsCounted + 1, TRUE, MaxStarveId)
    /\ call'.nested = {}

\* the frame may end: every item has been ticked, if there are items
FrameDone ==
    IF Settled THEN call.kind = "gate" /\ CallsCounted = MaxStarveId
    ELSE TRUE

\* a frame ends over budget and the server tick moves on
StarveFrame ==
    /\ FrameDone
    /\ tick < MaxStarveTick
    /\ LevelTickHook(config.targetTickMs + 1)
    /\ tick' = tick + 1
    /\ call' = NoCall
    /\ frame' = NoFrame
    /\ UNCHANGED <<lastAllow, killed>>

\* the same frame end past MaxStarveTick, seen from the moved origin
StarveFrameMoved ==
    /\ FrameDone
    /\ tick = MaxStarveTick
    /\ modState # "loaded"
    /\ ~crashed
    /\ config.enabled
    /\ OverBudget(config.targetTickMs + 1)
    /\ dynMaxPerTick' = StricterQuota
    /\ dynCooldownTicks' = StricterCooldown
    /\ lastItemTick' = [k \in DOMAIN lastItemTick |-> lastItemTick[k] - 1]
    /\ lastTickId' = lastTickId - 1
    /\ lastAllow' = [k \in DOMAIN lastAllow |->
                        IF lastAllow[k] = NoTick THEN NoTick
                        ELSE lastAllow[k] - 1]
    /\ call' = NoCall
    /\ frame' = NoFrame
    /\ UNCHANGED <<config, modState, debugState, processedThisTick,
                   cleanupCounter, stats, tick, crashed, killed>>

\* the debug report, between two frames
StarveReport == call = NoCall /\ DebugTask

NextStarve ==
    \/ FirstEnable
    \/ StarveGate
    \/ StarveFrame
    \/ StarveFrameMoved
    \/ StarveReport

SpecStarve == InitStarve /\ [][NextStarve]_vars /\ WF_vars(NextStarve)

(***************************************************************************)
(* Properties.                                                             *)
(***************************************************************************)
\* the step is a gate call that reached the admission logic (the feature
\* is enabled and the actor is an item)
GateStep == call'.kind = "gate" /\ call'.result # "PassThrough"

\* processedThisTick as the quota check of a gate call reads it: after the
\* reset a new frame id brings
AtQuotaCheck == IF tick = lastTickId THEN processedThisTick ELSE 0

\* the called entity was allowed before and has not been destroyed since
AllowedBefore(e) == lastAllow[e] # NoTick /\ e \notin killed

CooldownBetweenAllows ==
    [][GateStep /\ call'.result = "Allow" /\ AllowedBefore(call'.id)
         => tick - lastAllow[call'.id] >= dynCooldownTicks]_vars

\* C3: a gate call for an entity allowed at T and not since, at T' with
\* T' - T < dynCooldownTicks, returns DenyCooldown.
CooldownDenies ==
    [][GateStep /\ AllowedBefore(call'.id)
           /\ tick - lastAllow[call'.id] < dynCooldownTicks
         => call'.result = "DenyCooldown"]_vars

\* C4: a gate call for an entity allowed at T and not since, at T' with
\* T' - T >= dynCooldownTicks and quota left, returns Allow, sets the stored
\* timestamp to T' and increments processedThisTick by exactly 1.
AllowAfterCooldown ==
    [][GateStep /\ AllowedBefore(call'.id)
           /\ tick - lastAllow[call'.id] >= dynCooldownTicks
           /\ AtQuotaCheck < dynMaxPerTick
         => /\ call'.result = "Allow"
            /\ call'.id \in DOMAIN lastItemTick'
            /\ lastItemTick'[call'.id] = tick
            /\ processedThisTick' = AtQuotaCheck + 1]_vars

\* C5: the first gate call for an id with no entry in the store never
\* returns DenyCooldown, at any tick: it returns Allow if quota remains and
\* DenyThrottle otherwise.
FirstContactNotCooled ==
    [][GateStep /\ call'.id \notin DOMAIN lastItemTick
         => /\ call'.result # "DenyCooldown"
            /\ call'.result =
                 IF AtQuotaCheck < dynMaxPerTick THEN "Allow"
                 ELSE "DenyThrottle"]_vars

\* C5 witness: an id without entry is allowed at a tick smaller than the
\* cooldown.
FirstContactAllowedEarly ==
    /\ call.kind = "gate"
    /\ call.result = "Allow"
    /\ ~call.hadEntry
    /\ tick < dynCooldownTicks

\* C6: a sweep at currentTick leaves no entry older than maxExpiredAge, keeps
\* every entry of age <= maxExpiredAge with its timestamp (the called
\* entity's own entry is then rewritten only by its Allow, and entries of
\* entities destroyed during the admitted work are erased by their hooks),
\* and adds to totalExpiredCleaned exactly the number of entries it removed.
SweepExact ==
    [][GateStep /\ call'.swept
         => /\ \A k \in DOMAIN lastItemTick' :
                  tick - lastItemTick'[k] <= config.maxExpiredAge
            /\ \A k \in DOMAIN lastItemTick :
                  tick - lastItemTick[k] <= config.maxExpiredAge
                  /\ k \notin call'.nested
                  => /\ k \in DOMAIN lastItemTick'
                     /\ \/ lastItemTick'[k] = lastItemTick[k]
                        \/ k = call'.id /\ call'.result = "Allow"
            /\ \A k \in DOMAIN lastItemTick :
                  tick - lastItemTick[k] > config.maxExpiredAge
                  /\ ~(k = call'.id /\ call'.result = "Allow")
                  => k \notin DOMAIN lastItemTick'
            /\ totalExpiredCleaned' - totalExpiredCleaned =
                 Cardinality({k \in DOMAIN lastItemTick :
                     tick - lastItemTick[k] > config.maxExpiredAge})]_vars

\* C6 witness: a sweep has removed an entry and kept one of age exactly
\* maxExpiredAge.
SweepAtBoundary ==
    /\ call.kind = "gate"
    /\ call.swept
    /\ call.removed >= 1
    /\ \E k \in DOMAIN lastItemTick :
          k # call.id /\ tick - lastItemTick[k] = config.maxExpiredAge

\* C7: after enable(), dynMaxPerTick is in [8, 200] and dynCooldownTicks in
\* [1, 10], for every accepted configuration.
DynWithinClamps ==
    modState # "loaded"
    => /\ dynMaxPerTick \in QuotaFloor..QuotaCeil
       /\ dynCooldownTicks \in CooldownFloor..CooldownCeil

\* C8: from enable() on, with every frame over budget, dynMaxPerTick never
\* increases and ends at 8 for good, dynCooldownTicks never decreases and
\* ends at 10 for good.
OverBudgetConverges ==
    /\ [][modState = "enabled"
            => /\ dynMaxPerTick' <= dynMaxPerTick
               /\ dynCooldownTicks' >= dynCooldownTicks]_vars
    /\ <>[](dynMaxPerTick = QuotaFloor)
    /\ <>[](dynCooldownTicks = CooldownCeil)

\* C9: from enable() on, with every frame within budget, dynMaxPerTick never
\* decreases and ends at 200 for good, dynCooldownTicks never increases and
\* ends at 1 for good.
UnderBudgetConverges ==
    /\ [][modState = "enabled"
            => /\ dynMaxPerTick' >= dynMaxPerTick
               /\ dynCooldownTicks' <= dynCooldownTicks]_vars
    /\ <>[](dynMaxPerTick = QuotaCeil)
    /\ <>[](dynCooldownTicks = CooldownFloor)

\* C10: after a despawn or remove hook for E with the feature enabled the
\* store has no entry for E, and no gate call for E from then until E is
\* next allowed (its next gate call included) is denied by the cooldown,
\* however recently E was allowed.
DestroyedIsForgotten ==
    /\ [][call'.kind = "destroy" /\ config.enabled
            => call'.id \notin DOMAIN lastItemTick']_vars
    /\ [][GateStep => \A k \in call'.nested :
                          k \notin DOMAIN lastItemTick']_vars
    /\ [][GateStep /\ call'.id \in killed
            => /\ call'.result # "DenyCooldown"
               /\ call'.id \notin DOMAIN lastItemTick]_vars

\* C10 witness: an entity allowed in this very tick, then destroyed, is
\* allowed again by its next gate call.
DestroyedAllowedAgain ==
    /\ call.kind = "gate"
    /\ call.result = "Allow"
    /\ call.wasKilled
    /\ call.prevAllow = tick
    /\ ~call.hadEntry

\* C11: a despawn or remove hook erases the entry of its id and increments
\* totalDespawnCleaned by 1 exactly when the feature is enabled and the id
\* had an entry; otherwise it changes neither the store nor any counter, and
\* so does every destroy event for an id destroyed before and not allowed
\* since (despawn followed by remove).
DestroyIdempotent ==
    /\ [][call'.kind = "destroy"
            => /\ IF config.enabled /\ call'.id \in DOMAIN lastItemTick
                  THEN /\ lastItemTick' =
                            [k \in DOMAIN lastItemTick \ {call'.id}
                                |-> lastItemTick[k]]
                       /\ totalDespawnCleaned' = totalDespawnCleaned + 1
                  ELSE UNCHANGED <<lastItemTick, totalDespawnCleaned>>
               /\ UNCHANGED <<totalProcessed, totalCooldownSkipped,
                              totalThrottleSkipped, totalExpiredCleaned,
                              frameState, dyn>>]_vars
    /\ [][call'.kind = "destroy" /\ call'.id \in killed
            => UNCHANGED <<lastItemTick, stats>>]_vars

\* C11 witness: an entity was allowed, a destroy event erased its entry and
\* counted it, and a second destroy event for it has run.
DestroyedTwice ==
    /\ call.kind = "destroy"
    /\ call.wasKilled
    /\ ~call.hadEntry
    /\ call.prevAllow # NoTick
    /\ totalDespawnCleaned = 1
    /\ config.enabled

\* C12: enable() called after disable() leaves dynMaxPerTick =
\* maxPerTickStep * 10 and dynCooldownTicks = cooldownTicksStep * 2, whatever
\* the controller had reached and whatever hooks ran in between.
EnableAfterDisableResets ==
    [][modState = "disabled" /\ modState' = "enabled"
         => /\ dynMaxPerTick' = config.maxPerTickStep * 10
            /\ dynCooldownTicks' = config.cooldownTicksStep * 2]_vars

\* C12 witness: enable() has run after disable() in a state where the
\* controller had moved both parameters.
ReenabledAfterDrift ==
    /\ call.kind = "enable"
    /\ call.reset
    /\ modState = "enabled"

\* C13: right after disable() the store is empty, processedThisTick,
\* lastTickId and cleanupCounter are 0, the five counters are 0 and the
\* configuration is as before; and the store stays empty until enable() is
\* called again.
DisableClearsForGood ==
    /\ [][call'.kind = "disable"
            => /\ DOMAIN lastItemTick' = {}
               /\ processedThisTick' = 0
               /\ lastTickId' = 0
               /\ cleanupCounter' = 0
               /\ totalProcessed' = 0
               /\ totalCooldownSkipped' = 0
               /\ totalThrottleSkipped' = 0
               /\ totalDespawnCleaned' = 0
               /\ totalExpiredCleaned' = 0
               /\ config' = config]_vars
    /\ [](modState = "disabled" => DOMAIN lastItemTick = {})

\* C14: while config.enabled is false, a gate call passes through and a frame
\* end does nothing: neither changes the store, processedThisTick,
\* lastTickId, cleanupCounter, dynMaxPerTick, dynCooldownTicks or a counter.
DisabledFlagBypasses ==
    [][~config.enabled /\ (call'.kind = "gate" \/ tick' # tick)
         => /\ call'.kind = "gate" => call'.result = "PassThrough"
            /\ UNCHANGED <<lastItemTick, frameState, dyn, stats>>]_vars

\* C14 witness: with config.enabled false and the mod enabled, frames have
\* ended and an item's tick has passed through the gate.
BypassedItemTick ==
    /\ ~config.enabled
    /\ modState = "enabled"
    /\ tick > 1
    /\ call.kind = "gate"
    /\ call.id \in Ids
    /\ call.result = "PassThrough"

\* C15 as stated: a first gate call for an id without entry that returns
\* DenyThrottle leaves the id in the store as a placeholder with value 0.
PlaceholderAfterThrottle ==
    [][GateStep /\ call'.result = "DenyThrottle"
           /\ call'.id \notin DOMAIN lastItemTick
         => /\ call'.id \in DOMAIN lastItemTick'
            /\ lastItemTick'[call'.id] = 0]_vars

\* C15 as amended: a first gate call for an id without entry that returns
\* DenyThrottle leaves the store without an entry for the id; the id is
\* entered only by a call that gets past the quota test.
NoEntryAfterThrottle ==
    [][GateStep /\ call'.result = "DenyThrottle"
           /\ call'.id \notin DOMAIN lastItemTick
         => call'.id \notin DOMAIN lastItemTick']_vars

\* C15 witness: the store holds another id's entry, and the first call for
\* an id without entry has been denied by the throttle.
FirstContactThrottled ==
    /\ call.kind = "gate"
    /\ call.result = "DenyThrottle"
    /\ ~call.hadEntry
    /\ call.prevAllow = NoTick
    /\ totalThrottleSkipped = 1
    /\ DOMAIN lastItemTick = Ids \ {call.id}

\* C17 as stated: a gate call that returns DenyThrottle or DenyCooldown
\* leaves the called entity's timestamp and processedThisTick unchanged; a
\* DenyThrottle call leaves the whole store unchanged; and an entity's
\* timestamp is written only by a call that returns Allow for that entity,
\* and then to currentTick.
DenyChangesNothing ==
    /\ [][GateStep /\ call'.result \in {"DenyThrottle", "DenyCooldown"}
            => /\ processedThisTick' = processedThisTick
               /\ (call'.id \in DOMAIN lastItemTick')
                     = (call'.id \in DOMAIN lastItemTick)
               /\ call'.id \in DOMAIN lastItemTick
                     => lastItemTick'[call'.id] = lastItemTick[call'.id]]_vars
    /\ [][GateStep /\ call'.result = "DenyThrottle"
            => lastItemTick' = lastItemTick]_vars
    /\ [][\A k \in DOMAIN lastItemTick' :
              k \notin DOMAIN lastItemTick
              \/ lastItemTick'[k] # lastItemTick[k]
              => /\ call'.kind = "gate"
                 /\ call'.result = "Allow"
                 /\ call'.id = k
                 /\ lastItemTick'[k] = tick]_vars

\* C17 as amended: as stated, except that a denied call which is the first
\* of a new frame leaves processedThisTick at 0, the value the frame-boundary
\* reset gives it; every other denied call leaves it unchanged.
DenyWritesNothing ==
    /\ [][GateStep /\ call'.result \in {"DenyThrottle", "DenyCooldown"}
            => /\ processedThisTick' = AtQuotaCheck
               /\ (call'.id \in DOMAIN lastItemTick')
                     = (call'.id \in DOMAIN lastItemTick)
               /\ call'.id \in DOMAIN lastItemTick
                     => lastItemTick'[call'.id] = lastItemTick[call'.id]]_vars
    /\ [][GateStep /\ call'.result = "DenyThrottle"
            => lastItemTick' = lastItemTick]_vars
    /\ [][\A k \in DOMAIN lastItemTick' :
              k \notin DOMAIN lastItemTick
              \/ lastItemTick'[k] # lastItemTick[k]
              => /\ call'.kind = "gate"
                 /\ call'.result = "Allow"
                 /\ call'.id = k
                 /\ lastItemTick'[k] = tick]_vars

\* C17 witness: in a later frame than its Allow, an entity has been denied
\* by the cooldown as the first call of the frame; its entry still holds the
\* tick of that Allow and processedThisTick is 0.
DeniedKeepsTimestamp ==
    /\ call.kind = "gate"
    /\ call.result = "DenyCooldown"
    /\ call.id \in DOMAIN lastItemTick
    /\ lastItemTick[call.id] = call.prevAllow
    /\ call.prevAllow < tick
    /\ processedThisTick = 0

\* C18: when a despawn or remove hook for E runs during E's own admitted
\* work, the timestamp write does not go through the erased entry: the gate
\* call returns with the process alive, the Allow counted, and no entry for
\* E in the store.
ReentrantDestroySafe ==
    [][GateStep /\ call'.result = "Allow" /\ call'.id \in call'.nested
         => /\ ~crashed'
            /\ totalProcessed' = totalProcessed + 1
            /\ call'.id \notin DOMAIN lastItemTick']_vars

\* C20: between gate calls every timestamp in the store is the tick of its
\* entity's last Allow and is <= lastTickId <= the current tick; no
\* placeholder 0 stands for an entity that has not been allowed; and the
\* unsigned difference currentTick - timestamp does not wrap.
TimestampsAreAllowTicks ==
    /\ lastTickId <= tick
    /\ \A k \in DOMAIN lastItemTick :
          /\ lastAllow[k] # NoTick
          /\ lastItemTick[k] = lastAllow[k]
          /\ lastItemTick[k] # 0
          /\ lastItemTick[k] <= lastTickId
          /\ USub(tick, lastItemTick[k]) = tick - lastItemTick[k]
          /\ USub(tick, lastItemTick[k]) < UWrap

\* C20 witness: the store holds a timestamp older than lastTickId, the
\* cooldown test has used the difference, and an entity has no entry.
OlderTimestampKept ==
    /\ call.kind = "gate"
    /\ call.result = "DenyCooldown"
    /\ \E k \in DOMAIN lastItemTick : lastItemTick[k] < lastTickId
    /\ \E k \in Ids : k \notin DOMAIN lastItemTick

\* C16: with no despawn, remove or disable(), the gate called in every frame
\* and the tick growing by one per frame, an entry whose entity is not
\* admitted again is eventually removed (within maxExpiredAge +
\* cleanupIntervalTicks frames, for every timestamp that leaves the model
\* that many frames); an entry leaves the store only in a gate call that
\* runs the sweep, and the sweep runs only in the first gate call of a new
\* frame.
SweepIsBackstop ==
    /\ \A k \in Ids : \A t \in 1..MaxSweepTick :
          (/\ k \in DOMAIN lastItemTick
           /\ lastItemTick[k] = t
           /\ t + config.maxExpiredAge + config.cleanupIntervalTicks
                  <= MaxSweepTick)
          ~> (k \notin DOMAIN lastItemTick \/ lastItemTick[k] # t)
    /\ [][\A k \in DOMAIN lastItemTick :
              k \notin DOMAIN lastItemTick'
              => call'.kind = "gate" /\ call'.swept]_vars
    /\ [][call'.swept => tick # lastTickId]_vars

\* C16 witness: a sweep has removed the entry of an entity that was allowed
\* earlier and is not the one being ticked, and nothing was ever destroyed.
SweptUntouched ==
    /\ call.kind = "gate"
    /\ call.swept
    /\ call.removed >= 1
    /\ killed = {}
    /\ \E k \in Ids : /\ k # call.id
                       /\ lastAllow[k] # NoTick
                       /\ k \notin DOMAIN lastItemTick

\* C19: every item that is never destroyed and that the host ticks once in
\* every frame is eventually allowed.
NoStarvation == <>(\A e \in DOMAIN lastAllow : lastAllow[e] # NoTick)

====
